---- MODULE Spec2Model ----
(***************************************************************************)
(* Model of the hybrid retrieval core of the DoctorFollow demo:            *)
(*   src/rag.py    MedicalRAG (ingest_pdf, hybrid_search, ask)             *)
(*   src/utils.py  chunk_text, rrf_fusion, extract_citations,              *)
(*                 validate_citations, verify_answer_grounding             *)
(*   src/dose_calculator.py  calc_ibuprofen_dose, calculate_dose           *)
(*                                                                         *)
(* Nine specifications share the module:                                   *)
(*   Spec        one MedicalRAG instance used by an ingesting thread and a *)
(*               querying thread (the global rag_system of src/app.py,     *)
(*               whose handlers the web framework runs on worker threads). *)
(*   SpecSerial  the same calls made one after the other.                  *)
(*   SpecFusion  rrf_fusion as a pure function of bounded input lists.     *)
(*   SpecCandidates  the two candidate lists of hybrid_search as functions *)
(*               of the scores, the query and the norms.                   *)
(*   SpecChunk   chunk_text on bounded texts, one loop iteration per step. *)
(*   SpecCitations  extract_citations and validate_citations on bounded    *)
(*               answers.                                                  *)
(*   SpecAudit   the citation audit at the end of ask, on bounded search   *)
(*               results and answers.                                      *)
(*   SpecGrounding  verify_answer_grounding on bounded answers and source  *)
(*               chunks, one sentence per step.                            *)
(*   SpecDose    calculate_dose for ibuprofen on bounded weights and ages. *)
(*                                                                         *)
(* A document is known by the number of the ingest_pdf call that reads it; *)
(* a chunk text by <<document, position>>.  The embedding model and the    *)
(* BM25 scorer are external: their scores are arbitrary values, and the    *)
(* encoding of a query is taken to return.                                 *)
(*                                                                         *)
(* Fused scores are exact rationals <<num, den>>; the float rounding of    *)
(* the Python arithmetic is not modelled.                                  *)
(***************************************************************************)
EXTENDS Integers, Sequences, FiniteSets, TLC

VARIABLES
    \* ---- MedicalRAG fields (src/rag.py:62-72)
    chunks,          \* self.chunks: sequence of chunk texts
    embeddings,      \* self.embeddings: None or the matrix of one ingestion
    bm25,            \* self.bm25: None or the BM25 index of one ingestion
    document_name,   \* self.document_name (0 is the empty string)
    stats,           \* self.stats: total_queries, total_chunks
    \* ---- the thread running ingest_pdf
    ipc,             \* position in ingest_pdf
    ipdf,            \* the PDF being ingested
    iresult,         \* what the last ingest_pdf call returned
    ingests,         \* number of ingest_pdf calls made so far
    pre,             \* the fields as they were when the current call began
    \* ---- the thread running hybrid_search / ask
    qpc,             \* position in hybrid_search / ask
    call,            \* the locals of the current (or last) query call
    \* ---- rrf_fusion as a pure function (SpecFusion)
    fpc, fA, fB, fk, fOut, fOutSwapped,
    \* ---- the candidate lists of hybrid_search as a function of the scores
    cand,
    \* ---- chunk_text, one loop iteration per step (SpecChunk)
    ck,
    \* ---- extract_citations and validate_citations (SpecCitations)
    cit,
    \* ---- the citation audit at the end of ask (SpecAudit)
    aud,
    \* ---- verify_answer_grounding (SpecGrounding)
    gr,
    \* ---- calculate_dose for ibuprofen (SpecDose)
    dose

ragVars == <<chunks, embeddings, bm25, document_name, stats>>
ingestVars == <<ipc, ipdf, iresult, ingests, pre>>
queryVars == <<qpc, call>>
fusionVars == <<fpc, fA, fB, fk, fOut, fOutSwapped>>
auditVars == <<aud, gr, dose>>
pureVars == <<cand, ck, cit, auditVars>>
vars == <<ragVars, ingestVars, queryVars, fusionVars, pureVars>>

----------------------------------------------------------------------------
\* Bounds of the model

\* longest input list given to rrf_fusion in SpecFusion
MaxLen == 2
\* largest number of chunks one PDF yields
MaxChunks == 3
\* number of ingest_pdf calls in a behaviour
MaxIngests == 2
\* cap on stats['total_queries']
MaxQueries == 1

\* ids and input scores of the lists fused in SpecFusion (scores in tenths)
FusionIds == {2, 5, 7}
FusionScores == {7, 9}
FusionKs == {1, 60}

----------------------------------------------------------------------------
\* Sequence and arithmetic helpers

Min(a, b) == IF a <= b THEN a ELSE b
Max(a, b) == IF a >= b THEN a ELSE b

RECURSIVE GCD(_, _)
GCD(a, b) == IF b = 0 THEN a ELSE GCD(b, a % b)

RECURSIVE LCMRange(_, _)
\* least common multiple of lo..hi (1 for an empty range)
LCMRange(lo, hi) ==
    IF lo > hi THEN 1
    ELSE LET r == LCMRange(lo + 1, hi) IN (lo * r) \div GCD(lo, r)

SeqsUpTo(S, n) == UNION {[1..m -> S] : m \in 0..n}

----------------------------------------------------------------------------
\* rrf_fusion (src/utils.py:119-148)

\* the default of the parameter k
RRF_K == 60

\* A Python dict is a sequence of <<key, value>> in insertion order.
DictHas(d, key) == \E i \in 1..Len(d) : d[i][1] = key

DictGet(d, key, default) ==
    IF DictHas(d, key)
    THEN d[CHOOSE i \in 1..Len(d) : d[i][1] = key][2]
    ELSE default

\* d[key] = value: an existing key keeps its place, a new key goes last
DictSet(d, key, value) ==
    IF DictHas(d, key)
    THEN [i \in 1..Len(d) |-> IF d[i][1] = key THEN <<key, value>> ELSE d[i]]
    ELSE Append(d, <<key, value>>)

\* The common denominator under which the scores of one call are written.
RrfDen(bm25_scores, semantic_scores, k) ==
    LCMRange(k + 1, k + Max(Len(bm25_scores), Len(semantic_scores)))

\* 1 / (k + rank + 1), as a numerator over den
RankTermOffByOne(k, rank, den) == den \div (k + rank)
RankTerm(k, rank, den) == den \div (k + rank + 1)

RECURSIVE AddRanks(_, _, _, _, _)
\* for rank, (idx, score) in enumerate(list):
\*     rrf_scores[idx] = rrf_scores.get(idx, 0) + 1 / (k + rank + 1)
\* run from 0-based rank `rank` on
AddRanks(rrf_scores, list, rank, k, den) ==
    IF rank >= Len(list) THEN rrf_scores
    ELSE LET idx == list[rank + 1][1]
         IN AddRanks(DictSet(rrf_scores, idx,
                             DictGet(rrf_scores, idx, 0) + RankTerm(k, rank, den)),
                     list, rank + 1, k, den)

\* x placed in a sequence sorted by descending value, behind every element
\* whose value is >= its own
InsertDesc(sorted, x) ==
    LET p == Cardinality({i \in 1..Len(sorted) : sorted[i][2] >= x[2]})
    IN SubSeq(sorted, 1, p) \o <<x>> \o SubSeq(sorted, p + 1, Len(sorted))

RECURSIVE SortedReverse(_)
\* sorted(items, key=lambda x: x[1], reverse=True): a stable sort, so items of
\* equal value keep the order they have in `items`
SortedReverse(items) ==
    IF items = <<>> THEN <<>>
    ELSE InsertDesc(SortedReverse(SubSeq(items, 1, Len(items) - 1)),
                    items[Len(items)])

rrf_fusion(bm25_scores, semantic_scores, k) ==
    LET den == RrfDen(bm25_scores, semantic_scores, k)
        afterBm25 == AddRanks(<<>>, bm25_scores, 0, k, den)
        rrf_scores == AddRanks(afterBm25, semantic_scores, 0, k, den)
        sorted_results == SortedReverse(rrf_scores)
    IN [i \in 1..Len(sorted_results) |->
            <<sorted_results[i][1], <<sorted_results[i][2], den>>>>]

----------------------------------------------------------------------------
\* MedicalRAG: values

\* a field holding no index (Python None)
None == [src |-> 0, rows |-> 0]

\* the matrix or index that ingestion number g builds over n chunks
IndexOf(g, n) == [src |-> g, rows |-> n]

\* the i-th (0-based) chunk text of the document of ingestion number g
ChunkText(g, i) == <<g, i>>

\* chunk_text(clean_text(text), size=500, overlap=50) for the text of pdf
ChunksOf(pdf) == [i \in 1..pdf.n |-> ChunkText(pdf.id, i - 1)]

NoPdf == [id |-> 0, n |-> 0, extract_ok |-> TRUE, embed_ok |-> TRUE]
NoResult == [kind |-> "none"]
NoCall == [fn |-> "none"]

\* no ingest_pdf call is running
NoSnapshot == [chunks |-> <<>>, embeddings |-> None, bm25 |-> None,
               document_name |-> 0, total_chunks |-> 0]

\* the fields an ingestion publishes
Published == [chunks |-> chunks, embeddings |-> embeddings, bm25 |-> bm25,
              document_name |-> document_name,
              total_chunks |-> stats.total_chunks]

InitRag ==
    /\ chunks = <<>>
    /\ embeddings = None
    /\ bm25 = None
    /\ document_name = 0
    /\ stats = [total_queries |-> 0, total_chunks |-> 0]
    /\ ipc = "idle"
    /\ ipdf = NoPdf
    /\ iresult = NoResult
    /\ ingests = 0
    /\ pre = NoSnapshot
    /\ qpc = "idle"
    /\ call = NoCall

InitFusionOff ==
    /\ fpc = "off"
    /\ fA = <<>>
    /\ fB = <<>>
    /\ fk = RRF_K
    /\ fOut = <<>>
    /\ fOutSwapped = <<>>

\* a pure function that the specification at hand does not call
Off == [pc |-> "off"]

InitPureOff ==
    /\ cand = Off
    /\ ck = Off
    /\ cit = Off
    /\ aud = Off
    /\ gr = Off
    /\ dose = Off

----------------------------------------------------------------------------
\* SpecFusion: rrf_fusion applied to bounded inputs

FusionLists == SeqsUpTo(FusionIds \X FusionScores, MaxLen)

\* the scenario of the specification: fuse([(5,10.0),(2,9.0)], [(2,0.9),(5,0.7)], k=60)
ScenarioA == <<<<5, 100>>, <<2, 90>>>>
ScenarioB == <<<<2, 9>>, <<5, 7>>>>

InitFusion ==
    /\ InitRag
    /\ InitPureOff
    /\ fpc = "ready"
    /\ \/ /\ fA \in FusionLists
          /\ fB \in FusionLists
          /\ fk \in FusionKs
       \/ /\ fA = ScenarioA
          /\ fB = ScenarioB
          /\ fk = RRF_K
    /\ fOut = <<>>
    /\ fOutSwapped = <<>>

\* rrf_fusion(A, B, k)
CallFusion ==
    /\ fpc \in {"ready", "swapped"}
    /\ fOut' = rrf_fusion(fA, fB, fk)
    /\ fpc' = IF fpc = "ready" THEN "fused" ELSE "both"
    /\ UNCHANGED <<fA, fB, fk, fOutSwapped, ragVars, ingestVars, queryVars, pureVars>>

\* rrf_fusion(B, A, k)
CallFusionSwapped ==
    /\ fpc \in {"ready", "fused"}
    /\ fOutSwapped' = rrf_fusion(fB, fA, fk)
    /\ fpc' = IF fpc = "ready" THEN "swapped" ELSE "both"
    /\ UNCHANGED <<fA, fB, fk, fOut, ragVars, ingestVars, queryVars, pureVars>>

NextFusion == CallFusion \/ CallFusionSwapped

SpecFusion == InitFusion /\ [][NextFusion]_vars

----------------------------------------------------------------------------
\* MedicalRAG.ingest_pdf (src/rag.py:76-136), one action per store to a field

\* the PDFs a call may be given: how many chunks the text yields, whether
\* extraction raises and whether the embedding model raises
Pdfs(g) ==
    {pdf \in [id : {g}, n : 0..MaxChunks, extract_ok : BOOLEAN, embed_ok : BOOLEAN] :
        \* what is never looked at is left at its default
        /\ ~pdf.extract_ok => pdf.n = 0
        /\ pdf.n = 0 => pdf.embed_ok}

ErrorResult(why) == [kind |-> "error", error |-> why]

\* line 86: the call begins
IngestCall ==
    /\ ipc = "idle"
    /\ ingests < MaxIngests
    /\ \E pdf \in Pdfs(ingests + 1) : ipdf' = pdf
    /\ ingests' = ingests + 1
    /\ pre' = Published
    /\ UNCHANGED iresult
    /\ ipc' = "extract"
    /\ UNCHANGED <<ragVars, queryVars, fusionVars, pureVars>>

\* lines 89-97: _extract_pdf_text, clean_text
IngestExtract ==
    /\ ipc = "extract"
    /\ IF ipdf.extract_ok
       THEN /\ ipc' = "chunk"
            /\ UNCHANGED iresult
       ELSE /\ ipc' = "return"
            /\ iresult' = ErrorResult("PDF extraction failed")
    /\ UNCHANGED <<ragVars, ipdf, ingests, pre, queryVars, fusionVars, pureVars>>

\* line 100: self.chunks = chunk_text(text, size=500, overlap=50)
IngestChunk ==
    /\ ipc = "chunk"
    /\ chunks' = ChunksOf(ipdf)
    /\ ipc' = "count"
    /\ UNCHANGED <<embeddings, bm25, document_name, stats, ipdf, iresult,
                   ingests, pre, queryVars, fusionVars, pureVars>>

\* lines 101-105: stats['total_chunks'] = len(self.chunks); if not self.chunks
IngestCount ==
    /\ ipc = "count"
    /\ stats' = [stats EXCEPT !.total_chunks = Len(chunks)]
    /\ IF chunks = <<>>
       THEN /\ ipc' = "return"
            /\ iresult' = ErrorResult("No text chunks created from PDF")
       ELSE /\ ipc' = "embed"
            /\ UNCHANGED iresult
    /\ UNCHANGED <<chunks, embeddings, bm25, document_name, ipdf, ingests, pre,
                   queryVars, fusionVars, pureVars>>

\* lines 109-119: self.embeddings = self.embeddings_model.encode(passages)
IngestEmbed ==
    /\ ipc = "embed"
    /\ IF ipdf.embed_ok
       THEN /\ embeddings' = IndexOf(ipdf.id, Len(chunks))
            /\ ipc' = "bm25"
            /\ UNCHANGED iresult
       ELSE /\ ipc' = "return"
            /\ iresult' = ErrorResult("Embedding creation failed")
            /\ UNCHANGED embeddings
    /\ UNCHANGED <<chunks, bm25, document_name, stats, ipdf, ingests, pre,
                   queryVars, fusionVars, pureVars>>

\* lines 123-124: self.bm25 = BM25Okapi(tokenized_chunks)
IngestBm25 ==
    /\ ipc = "bm25"
    /\ bm25' = IndexOf(ipdf.id, Len(chunks))
    /\ ipc' = "name"
    /\ UNCHANGED <<chunks, embeddings, document_name, stats, ipdf, iresult,
                   ingests, pre, queryVars, fusionVars, pureVars>>

\* lines 128-136: self.document_name = Path(pdf_path).name; return the statistics
IngestName ==
    /\ ipc = "name"
    /\ document_name' = ipdf.id
    /\ iresult' = [kind |-> "success", document_name |-> ipdf.id,
                   total_chunks |-> Len(chunks)]
    /\ ipc' = "return"
    /\ UNCHANGED <<chunks, embeddings, bm25, stats, ipdf, ingests, pre,
                   queryVars, fusionVars, pureVars>>

------------------------------------------------------------------------

\* the result goes to the caller (src/app.py:42) and the frame is gone
IngestReturn ==
    /\ ipc = "return"
    /\ ipc' = "idle"
    /\ ipdf' = NoPdf
    /\ iresult' = NoResult
    /\ pre' = NoSnapshot
    /\ UNCHANGED <<ragVars, ingests, queryVars, fusionVars, pureVars>>

----------------------------------------------------------------------------
\* MedicalRAG.hybrid_search (src/rag.py:153-194)

\* the values of top_k that hybrid_search is called with

\* the values of top_k that hybrid_search is called with
TopKs == {1}
\* ask calls hybrid_search(query, top_k=5)
ASK_TOP_K == 5
\* the values a BM25 score or a cosine similarity takes
ScoreVals == {0, 1}

\* the orderings of the indices 0..n-1
Permutations0 ==
    [n \in 0..MaxChunks |->
        {p \in [1..n -> 0..(n - 1)] : \A i, j \in 1..n : i < j => p[i] # p[j]}]

Reverse(s) == [i \in 1..Len(s) |-> s[Len(s) + 1 - i]]

\* np.argsort(scores) for scores over 0..n-1: the indices by ascending score;
\* the order among equal scores is the sort's choice
ArgsortOutcomes(scores, n) ==
    {p \in Permutations0[n] : \A i \in 1..(n - 1) : scores[p[i]] <= scores[p[i + 1]]}

\* np.argsort(scores)[::-1][:top_k * 2], for one outcome `order` of the argsort
TopIndices(order, top_k) ==
    SubSeq(Reverse(order), 1, Min(top_k * 2, Len(order)))

\* [(idx, float(scores[idx])) for idx in top_indices]
Scored(top_indices, scores) ==
    [i \in 1..Len(top_indices) |-> <<top_indices[i], scores[top_indices[i]]>>]

\* The candidate lists one signal can produce over n rows for top_k: every
\* score vector, every outcome of its argsort, reversed, cut and scored.
CandidateLists ==
    [n \in 0..MaxChunks, top_k \in TopKs \cup {ASK_TOP_K} |->
        UNION {{Scored(TopIndices(order, top_k), scores) :
                    order \in ArgsortOutcomes(scores, n)} :
               scores \in [0..(n - 1) -> ScoreVals]}]

\* fused_results[:top_k]
FusedTopUncut(fused_results, top_k) == fused_results
FusedTop(fused_results, top_k) ==
    SubSeq(fused_results, 1, Min(top_k, Len(fused_results)))

\* line 164: not self.chunks or self.embeddings is None or self.bm25 is None
NotReadyIgnoringChunks(c, e, b) == e = None \/ b = None
NotReady(c, e, b) == c = <<>> \/ e = None \/ b = None

\* the locals of a call that has just begun
NewCall(fn, top_k) ==
    [fn |-> fn, top_k |-> top_k,
     guard |-> [seen |-> FALSE, chunks_n |-> 0, embeddings |-> None, bm25 |-> None],
     bm25_results |-> <<>>, dot |-> None,
     fused_results |-> <<>>, results |-> <<>>, error |-> "none",
     \* which ingestion each value the call read came from
     used_bm25 |-> {}, used_embeddings |-> {}, used_chunks |-> {},
     \* the ingest thread when the call began
     start_ingests |-> ingests, start_chunks_n |-> Len(chunks),
     retrieved |-> FALSE, generated |-> FALSE, ret |-> NoResult]

\* where hybrid_search returns to
AfterSearch(c) == IF c.fn = "ask" THEN "ask_after" ELSE "return"

\* the locals that are dead once both candidate lists are fused
Fused(c, fused_results) ==
    [c EXCEPT !.bm25_results = <<>>, !.dot = None, !.fused_results = fused_results]

\* the frame of hybrid_search is gone when it returns or raises
Left(c) == [c EXCEPT !.bm25_results = <<>>, !.dot = None, !.fused_results = <<>>]

\* line 164-165 on the locals c
GuardStep(c) ==
    LET seen == [c EXCEPT !.guard = [seen |-> TRUE, chunks_n |-> Len(chunks),
                                     embeddings |-> embeddings, bm25 |-> bm25],
                          !.retrieved = TRUE]
    IN IF NotReady(chunks, embeddings, bm25)
       THEN /\ call' = seen
            /\ qpc' = AfterSearch(c)
       ELSE /\ call' = seen
            /\ qpc' = "bm25"

\* a direct call of hybrid_search(query, top_k), up to the guard of line 164
HybridSearch ==
    /\ qpc = "idle"
    /\ \E top_k \in TopKs : GuardStep(NewCall("search", top_k))
    /\ UNCHANGED <<ragVars, ingestVars, fusionVars, pureVars>>

\* the guard of the hybrid_search call made by ask
Guard ==
    /\ qpc = "guard"
    /\ GuardStep(call)
    /\ UNCHANGED <<ragVars, ingestVars, fusionVars, pureVars>>

\* lines 168-171: self.bm25.get_scores, argsort, the lexical candidate list
Bm25Search ==
    /\ qpc = "bm25"
    /\ \E bm25_results \in CandidateLists[bm25.rows, call.top_k] :
            call' = [call EXCEPT !.bm25_results = bm25_results,
                                 !.used_bm25 = {bm25.src}]
    /\ qpc' = "dot"
    /\ UNCHANGED <<ragVars, ingestVars, fusionVars, pureVars>>

\* line 180: np.dot(self.embeddings, query_embedding)
SemanticDot ==
    /\ qpc = "dot"
    /\ call' = [call EXCEPT !.dot = embeddings,
                            !.used_embeddings = {embeddings.src}]
    /\ qpc' = "norm"
    /\ UNCHANGED <<ragVars, ingestVars, fusionVars, pureVars>>

\* the shapes (a,) and (b,) broadcast when equal or when one of them is 1
Broadcasts(a, b) == a = b \/ a = 1 \/ b = 1

\* lines 181-187: np.linalg.norm(self.embeddings, axis=1), the division, argsort,
\* the dense candidate list and the fusion
SemanticNorm ==
    /\ qpc = "norm"
    /\ LET used == call.used_embeddings \cup {embeddings.src}
           n == Max(call.dot.rows, embeddings.rows)
       IN IF Broadcasts(call.dot.rows, embeddings.rows)
          THEN \E fused_results \in
                     {rrf_fusion(call.bm25_results, semantic_results, RRF_K) :
                          semantic_results \in CandidateLists[n, call.top_k]} :
                   LET c == [call EXCEPT !.used_embeddings = used]
                   IN IF FusedTop(fused_results, call.top_k) = <<>>
                      THEN /\ call' = Left(c)
                           /\ qpc' = AfterSearch(call)
                      ELSE /\ call' = Fused(c, fused_results)
                           /\ qpc' = "resolve"
          ELSE /\ call' = Left([call EXCEPT !.error = "ValueError",
                                            !.used_embeddings = used])
               /\ qpc' = "return"
    /\ UNCHANGED <<ragVars, ingestVars, fusionVars, pureVars>>

\* lines 191-194: one iteration of the loop, results.append((idx, self.chunks[idx]));
\* the last iteration returns the list
Resolve ==
    /\ qpc = "resolve"
    /\ LET top == FusedTop(call.fused_results, call.top_k)
           idx == top[Len(call.results) + 1][1]
       IN IF idx < Len(chunks)
          THEN LET c == [call EXCEPT
                             !.results = Append(@, <<idx, chunks[idx + 1]>>),
                             !.used_chunks = @ \cup {chunks[idx + 1][1]}]
               IN IF Len(c.results) = Len(top)
                  THEN /\ call' = Left(c)
                       /\ qpc' = AfterSearch(call)
                  ELSE /\ call' = c
                       /\ qpc' = "resolve"
          ELSE /\ call' = Left([call EXCEPT !.error = "IndexError"])
               /\ qpc' = "return"
    /\ UNCHANGED <<ragVars, ingestVars, fusionVars, pureVars>>

----------------------------------------------------------------------------
\* MedicalRAG.ask (src/rag.py:264-317)

\* the citation ids extract_citations finds in a generated answer
CitationLists == {<<>>, <<1>>, <<1, 6>>}

\* validate_citations(answer, num_sources)['is_valid'] (src/utils.py:195-222)
IsValid(citation_ids, num_sources) ==
    /\ citation_ids # <<>>
    /\ \A i \in 1..Len(citation_ids) :
          ~(citation_ids[i] < 1 \/ citation_ids[i] > num_sources)

\* lines 275-286: the not-ready return, or the query count and the search call
Ask ==
    /\ qpc = "idle"
    /\ stats.total_queries < MaxQueries
    /\ LET c == NewCall("ask", ASK_TOP_K)
       IN IF chunks = <<>>
          THEN /\ call' = [c EXCEPT !.ret = [kind |-> "not_ready", sources |-> <<>>,
                                             citations_valid |-> FALSE]]
               /\ qpc' = "return"
               /\ UNCHANGED stats
          ELSE /\ call' = c
               /\ stats' = [stats EXCEPT !.total_queries = @ + 1]
               /\ qpc' = "guard"
    /\ UNCHANGED <<chunks, embeddings, bm25, document_name, ingestVars, fusionVars, pureVars>>

\* lines 287-317: the no-sources return, or generate_answer and the citation audit
AskAfter ==
    /\ qpc = "ask_after"
    /\ LET context_chunks == [i \in 1..Len(call.results) |-> call.results[i][2]]
       IN IF context_chunks = <<>>
          THEN call' = [call EXCEPT !.ret = [kind |-> "no_sources", sources |-> <<>>,
                                             citations_valid |-> FALSE]]
          ELSE \E citation_ids \in CitationLists :
                 call' = [call EXCEPT
                            !.generated = TRUE,
                            !.ret = [kind |-> "answer", sources |-> context_chunks,
                                     citation_ids |-> citation_ids,
                                     citations_valid |->
                                        IsValid(citation_ids, Len(context_chunks))]]
    /\ qpc' = "return"
    /\ UNCHANGED <<ragVars, ingestVars, fusionVars, pureVars>>

----------------------------------------------------------------------------

\* the result goes to the caller (src/app.py:83) and the frame is gone
QueryReturn ==
    /\ qpc = "return"
    /\ qpc' = "idle"
    /\ call' = NoCall
    /\ UNCHANGED <<ragVars, ingestVars, fusionVars, pureVars>>

----------------------------------------------------------------------------

Init == InitRag /\ InitFusionOff /\ InitPureOff

\* a step of the thread in ingest_pdf
IngestNext ==
    \/ IngestCall \/ IngestExtract \/ IngestChunk \/ IngestCount
    \/ IngestEmbed \/ IngestBm25 \/ IngestName \/ IngestReturn

\* a step of the thread in hybrid_search or ask
QueryNext ==
    \/ HybridSearch \/ Guard \/ Bm25Search \/ SemanticDot \/ SemanticNorm
    \/ Resolve \/ Ask \/ AskAfter \/ QueryReturn

\* the two threads interleave freely
Next == IngestNext \/ QueryNext

Spec == Init /\ [][Next]_vars

\* calls made one after the other: a call begins and runs while the other
\* thread is in no call
NextSerial ==
    \/ qpc = "idle" /\ IngestCall
    \/ qpc = "idle" /\ IngestExtract
    \/ qpc = "idle" /\ IngestChunk
    \/ qpc = "idle" /\ IngestCount
    \/ qpc = "idle" /\ IngestEmbed
    \/ qpc = "idle" /\ IngestBm25
    \/ qpc = "idle" /\ IngestName
    \/ qpc = "idle" /\ IngestReturn
    \/ ipc = "idle" /\ HybridSearch
    \/ ipc = "idle" /\ Guard
    \/ ipc = "idle" /\ Bm25Search
    \/ ipc = "idle" /\ SemanticDot
    \/ ipc = "idle" /\ SemanticNorm
    \/ ipc = "idle" /\ Resolve
    \/ ipc = "idle" /\ Ask
    \/ ipc = "idle" /\ AskAfter
    \/ ipc = "idle" /\ QueryReturn

SpecSerial == Init /\ [][NextSerial]_vars

----------------------------------------------------------------------------
\* SpecCandidates: the two candidate lists of hybrid_search
\* (src/rag.py:168-184) as functions of the index size, the query and the
\* norms of the vectors.

\* number of tokens of query.lower().split(): none for an empty or
\* whitespace-only query
QueryTokens == {0, 1}

\* self.bm25.get_scores(tokenized_query): one score per chunk, the sum of the
\* per-token scores, hence all zero when the query has no token
Bm25Scores(n, tokens) ==
    IF tokens = 0 THEN {[i \in 0..(n - 1) |-> 0]}
    ELSE [0..(n - 1) -> ScoreVals]

\* the value of the float division 0.0 / 0.0; np.argsort orders it after
\* every number
NaN == 9

\* np.dot(self.embeddings, query_embedding) /
\*   (np.linalg.norm(self.embeddings, axis=1) * np.linalg.norm(query_embedding)):
\* a row of zero norm, or a query of zero norm, has dot product 0 and divisor 0
SimilarityOutcomes(n, zero_rows, query_zero) ==
    {sims \in [0..(n - 1) -> ScoreVals \cup {NaN}] :
        \A i \in 0..(n - 1) : sims[i] = NaN <=> (query_zero \/ i \in zero_rows)}

InitCandidates ==
    /\ InitRag
    /\ InitFusionOff
    /\ ck = Off
    /\ cit = Off
    /\ aud = Off /\ gr = Off /\ dose = Off
    /\ \E n \in 1..MaxChunks, top_k \in TopKs \cup {ASK_TOP_K},
          tokens \in QueryTokens, zero_rows \in SUBSET (0..(MaxChunks - 1)),
          query_zero \in BOOLEAN :
            /\ zero_rows \subseteq 0..(n - 1)
            /\ cand = [pc |-> "ready", n |-> n, top_k |-> top_k,
                       tokens |-> tokens, zero_rows |-> zero_rows,
                       query_zero |-> query_zero, results |-> <<>>]

\* lines 168-171: tokenize, score, argsort, reverse, cut, pair with scores
LexicalCandidates ==
    /\ cand.pc = "ready"
    /\ \E bm25_scores \in Bm25Scores(cand.n, cand.tokens) :
         \E order \in ArgsortOutcomes(bm25_scores, cand.n) :
            cand' = [cand EXCEPT !.pc = "lexical",
                        !.results = Scored(TopIndices(order, cand.top_k), bm25_scores)]
    /\ UNCHANGED <<ragVars, ingestVars, queryVars, fusionVars, ck, cit, auditVars>>

\* lines 174-184: similarities, argsort, reverse, cut, pair with similarities
DenseCandidates ==
    /\ cand.pc = "ready"
    /\ \E similarities \in SimilarityOutcomes(cand.n, cand.zero_rows, cand.query_zero) :
         \E order \in ArgsortOutcomes(similarities, cand.n) :
            cand' = [cand EXCEPT !.pc = "dense",
                        !.results = Scored(TopIndices(order, cand.top_k), similarities)]
    /\ UNCHANGED <<ragVars, ingestVars, queryVars, fusionVars, ck, cit, auditVars>>

NextCandidates == LexicalCandidates \/ DenseCandidates

SpecCandidates == InitCandidates /\ [][NextCandidates]_vars

----------------------------------------------------------------------------
\* SpecChunk: chunk_text (src/utils.py:47-90), one loop iteration per step.
\* A text is a sequence of characters; a chunk is kept as the span of the
\* text it covers, 0-based and half-open, after str.strip().

\* longest text given to chunk_text
MaxText == 6
\* largest window size given to chunk_text
MaxSize == 5
\* cap on the number of loop iterations followed
MaxIters == 7

\* a letter, a sentence end, a blank
ChunkAlphabet == {"a", ".", " "}
\* the characters str.strip() removes
Whitespace == {" "}

SetMax(S) == CHOOSE x \in S : \A y \in S : y <= x
SetMin(S) == CHOOSE x \in S : \A y \in S : x <= y

\* a slice bound of Python on a sequence of length n: negative bounds count
\* from the end, and every bound is clamped to 0..n
PyIndex(i, n) == IF i < 0 THEN Max(i + n, 0) ELSE Min(i, n)

\* the span <<lo, hi>> that text[a:b] covers in a text of length n
SliceSpan(n, a, b) ==
    LET lo == PyIndex(a, n)
        hi == PyIndex(b, n)
    IN  <<lo, Max(lo, hi)>>

\* the characters of a span
Chars(text, span) == SubSeq(text, span[1] + 1, span[2])

\* chunk.rfind(c): the last 0-based position of c in chunk, or -1
rfind(chunk, c) ==
    LET P == {i \in 1..Len(chunk) : chunk[i] = c}
    IN  IF P = {} THEN -1 ELSE SetMax(P) - 1

\* str.strip() on the span: the span without its leading and trailing blanks
StripSpan(text, span) ==
    LET K == {i \in span[1]..(span[2] - 1) : text[i + 1] \notin Whitespace}
    IN  IF K = {} THEN <<span[1], span[1]>> ELSE <<SetMin(K), SetMax(K) + 1>>

\* the (size, overlap) pairs with size > overlap >= 0
ValidParams == {p \in (1..MaxSize) \X (0..(MaxSize - 1)) : p[1] > p[2]}
\* pairs outside that range: overlap = size, overlap > size, overlap < 0,
\* size = 0, size < 0
InvalidParams == {<<2, 2>>, <<2, 3>>, <<3, -1>>, <<0, 0>>, <<-1, 0>>}

\* calls on texts outside the alphabet: three short sentences, and a
\* sentence that ends with each of the other two terminals of line 75
ExampleCalls ==
    { [text |-> <<"A", ".", " ", "B", ".", " ", "C", ".">>, size |-> 4, overlap |-> 1],
      [text |-> <<"a", "a", "a", "!", "a", "a", "a">>, size |-> 5, overlap |-> 1],
      [text |-> <<"a", "a", "a", "?", "a", "a", "a">>, size |-> 5, overlap |-> 1] }

InitChunk ==
    /\ InitRag
    /\ InitFusionOff
    /\ cand = Off
    /\ cit = Off
    /\ aud = Off /\ gr = Off /\ dose = Off
    /\ \/ \E text \in SeqsUpTo(ChunkAlphabet, MaxText),
             p \in ValidParams \cup InvalidParams :
               ck = [pc |-> "ready", text |-> text, size |-> p[1], overlap |-> p[2],
                     start |-> 0, iters |-> 0, chunks |-> <<>>, result |-> <<>>]
       \/ \E c \in ExampleCalls :
               ck = [pc |-> "ready", text |-> c.text, size |-> c.size,
                     overlap |-> c.overlap,
                     start |-> 0, iters |-> 0, chunks |-> <<>>, result |-> <<>>]

\* lines 60-65: an empty text returns []; otherwise start = 0
ChunkCall ==
    /\ ck.pc = "ready"
    /\ ck' = [ck EXCEPT !.pc = IF ck.text = <<>> THEN "done" ELSE "loop"]
    /\ UNCHANGED <<ragVars, ingestVars, queryVars, fusionVars, cand, cit, auditVars>>

\* start = end - overlap (line 83)
NextStartOneLess(end, overlap) == end - overlap - 1
NextStart(end, overlap) == end - overlap

\* line 76: the last sentence end lies past the midpoint of the window
AtOrPastMidpoint(last_period, size) == last_period >= size \div 2
PastMidpoint(last_period, size) == last_period > size \div 2

\* lines 67-88: one iteration of the while loop
ChunkIteration ==
    /\ ck.pc = "loop"
    /\ ck.start < Len(ck.text)
    /\ ck.iters < MaxIters
    /\ LET text_length == Len(ck.text)
           window == SliceSpan(text_length, ck.start, ck.start + ck.size)
           chunk == Chars(ck.text, window)
           last_period == Max(rfind(chunk, "."), Max(rfind(chunk, "!"), rfind(chunk, "?")))
           snap == /\ ck.start + ck.size < text_length
                   /\ PastMidpoint(last_period, ck.size)
           end == IF snap THEN ck.start + last_period + 1 ELSE ck.start + ck.size
           span == IF snap
                   THEN <<window[1],
                          window[1] + SliceSpan(Len(chunk), 0, last_period + 1)[2]>>
                   ELSE window
           start == NextStart(end, ck.overlap)
           appended == Append(ck.chunks,
                              [start |-> ck.start, span |-> StripSpan(ck.text, span)])
           rest == SliceSpan(text_length, start, text_length)
       IN  IF start + ck.size >= text_length /\ start < text_length
           THEN ck' = [ck EXCEPT !.pc = "break", !.start = start,
                          !.iters = ck.iters + 1,
                          !.chunks = Append(appended,
                              [start |-> start, span |-> StripSpan(ck.text, rest)])]
           ELSE ck' = [ck EXCEPT !.start = start, !.iters = ck.iters + 1,
                          !.chunks = appended]
    /\ UNCHANGED <<ragVars, ingestVars, queryVars, fusionVars, cand, cit, auditVars>>

\* the chunks that are not empty after stripping
NonEmpty(chunk_list) == SelectSeq(chunk_list, LAMBDA c : c.span[1] < c.span[2])

\* line 90, after the break or after the loop condition fails:
\* return [c for c in chunks if c]
ChunkReturn ==
    /\ \/ ck.pc = "break"
       \/ ck.pc = "loop" /\ ~(ck.start < Len(ck.text))
    /\ ck' = [ck EXCEPT !.pc = "done",
                 !.chunks = NonEmpty(ck.chunks),
                 !.result = [i \in 1..Len(NonEmpty(ck.chunks)) |->
                                Chars(ck.text, NonEmpty(ck.chunks)[i].span)]]
    /\ UNCHANGED <<ragVars, ingestVars, queryVars, fusionVars, cand, cit, auditVars>>

NextChunk == ChunkCall \/ ChunkIteration \/ ChunkReturn

SpecChunk == InitChunk /\ [][NextChunk]_vars

----------------------------------------------------------------------------
\* SpecCitations: extract_citations and validate_citations
\* (src/utils.py:151-222) applied to bounded answers.  An answer is a sequence
\* of characters, built by concatenating a few segments.

\* largest number of segments in an answer
MaxSegs == 3

\* int() raises ValueError for a string of more decimal digits than this
\* (sys.int_info.default_max_str_digits of the interpreter)
INT_MAX_STR_DIGITS == 4300
\* one character that stands for a run of INT_MAX_STR_DIGITS + 1 digits
DigitRun == "1..1"

Digits == {"0", "1", "2", "3", "6", DigitRun}
DigitVal(c) ==
    CASE c = "0" -> 0 [] c = "1" -> 1 [] c = "2" -> 2 [] c = "3" -> 3 [] c = "6" -> 6

\* re.IGNORECASE on the letters of the label
Lower(c) ==
    CASE c = "K" -> "k" [] c = "A" -> "a" [] c = "Y" -> "y" [] c = "N" -> "n"
      [] OTHER -> c

\* the pieces answers are made of: markers with and without the label, in
\* other case, with and without blanks, with a very long number; brackets that
\* hold no number, a blank after the number, a lone bracket, a lone number,
\* other text
Segments ==
    { <<"[", "1", "]">>, <<"[", "2", "]">>, <<"[", "0", "]">>,
      <<"[", "1", "0", "]">>, <<"[", DigitRun, "]">>,
      <<"[", "K", "a", "y", "n", "a", "k", " ", "3", "]">>,
      <<"[", "k", "A", "Y", "N", "A", "K", "2", "]">>,
      <<"[", " ", "1", "]">>, <<"[", "1", " ", "]">>,
      <<"[", "K", "a", "y", "n", "a", "k", "]">>,
      <<"[">>, <<"1">>, <<"]">>, <<"x">> }

RECURSIVE Concat(_)
Concat(segs) == IF segs = <<>> THEN <<>> ELSE Head(segs) \o Concat(Tail(segs))

Answers == {Concat(segs) : segs \in SeqsUpTo(Segments, MaxSegs)}

\* the values of num_sources
NumSources == {1, 2}

\* (?:Kaynak|kaynak) at position j of s, in any case
LabelAt(s, j) ==
    /\ j + 5 <= Len(s)
    /\ [p \in 1..6 |-> Lower(s[j + p - 1])] = <<"k", "a", "y", "n", "a", "k">>

\* the first position from j on whose character is not in set S (Len(s) + 1
\* when there is none)
SkipWhile(s, j, S) ==
    SetMin({p \in j..(Len(s) + 1) : p = Len(s) + 1 \/ s[p] \notin S})

\* \s*(\d+)\] at position j of s: the position of the closing bracket, or 0
TailAt(s, j) ==
    LET d == SkipWhile(s, j, Whitespace)
        e == SkipWhile(s, d, Digits)
    IN  IF e > d /\ e <= Len(s) /\ s[e] = "]" THEN e ELSE 0

\* the pattern \[(?:Kaynak|kaynak)?\s*(\d+)\] at position i of s: the position
\* of the closing bracket, or 0.  The label is tried first, then its absence.
MatchAt(s, i) ==
    IF s[i] # "[" THEN 0
    ELSE LET labelled == IF LabelAt(s, i + 1) THEN TailAt(s, i + 7) ELSE 0
         IN  IF labelled # 0 THEN labelled ELSE TailAt(s, i + 1)

\* the group (\d+) of the match at position i that ends at e
Group(s, e) ==
    LET d == SetMin({p \in 1..e : \A q \in p..(e - 1) : s[q] \in Digits})
    IN  SubSeq(s, d, e - 1)

RECURSIVE findall(_, _)
\* re.findall(citation_pattern, answer, re.IGNORECASE) from position i on:
\* the groups of the matches, left to right, a match resuming after the last
findall(s, i) ==
    IF i > Len(s) THEN <<>>
    ELSE LET e == MatchAt(s, i)
         IN  IF e = 0 THEN findall(s, i + 1)
             ELSE <<Group(s, e)>> \o findall(s, e + 1)

RECURSIVE DigitCount(_)
\* len(match)
DigitCount(digits) ==
    IF digits = <<>> THEN 0
    ELSE (IF Head(digits) = DigitRun THEN INT_MAX_STR_DIGITS + 1 ELSE 1)
         + DigitCount(Tail(digits))

\* int(match) raises ValueError
IntRaises(digits) == DigitCount(digits) > INT_MAX_STR_DIGITS

RECURSIVE int(_)
\* int(match) for a string of decimal digits that int() accepts
int(digits) ==
    IF digits = <<>> THEN 0
    ELSE 10 * int(SubSeq(digits, 1, Len(digits) - 1)) + DigitVal(digits[Len(digits)])

RECURSIVE Dedup(_, _)
\* lines 171-177: the integers of the matches, each kept the first time only
Dedup(matches, seen) ==
    IF matches = <<>> THEN <<>>
    ELSE LET cid == int(Head(matches))
         IN  IF cid \notin seen
             THEN <<cid>> \o Dedup(Tail(matches), seen \cup {cid})
             ELSE Dedup(Tail(matches), seen)

\* line 174 raises for one of the matches
ExtractRaises(answer) ==
    \E i \in 1..Len(findall(answer, 1)) : IntRaises(findall(answer, 1)[i])

\* the list extract_citations returns when line 174 does not raise
extract_citations(answer) == Dedup(findall(answer, 1), {})

\* line 211: [cid for cid in citation_ids if cid < 1 or cid > num_sources]
InvalidIds(citation_ids, num_sources) ==
    SelectSeq(citation_ids, LAMBDA cid : cid < 1 \/ cid > num_sources)

\* 'Kaynaklarda atif bulunamadi (No citations found)' (line 207)
NoCitationsMessage == <<"Kaynaklarda atif bulunamadi (No citations found)">>

\* what validate_citations returns when extract_citations returns; a message
\* is the sequence of its parts, '' the empty one
ValidateWithoutCitationTest(answer, num_sources) ==
    LET citation_ids == extract_citations(answer)
        invalid_ids == InvalidIds(citation_ids, num_sources)
    IN  [is_valid |-> invalid_ids = <<>>,
         has_citations |-> Len(citation_ids) > 0,
         citation_ids |-> citation_ids,
         invalid_ids |-> invalid_ids,
         message |-> IF invalid_ids = <<>>
                     THEN <<"Gecerli: ", Len(citation_ids), " kaynak referans verildi">>
                     ELSE <<"Gecersiz kaynak numaralari: ", invalid_ids>>]
validate_citations(answer, num_sources) ==
    LET citation_ids == extract_citations(answer)
        result == [is_valid |-> FALSE,
                   has_citations |-> Len(citation_ids) > 0,
                   citation_ids |-> citation_ids,
                   invalid_ids |-> <<>>,
                   message |-> <<>>]
        invalid_ids == InvalidIds(citation_ids, num_sources)
    IN  IF citation_ids = <<>>
        THEN [result EXCEPT !.message = NoCitationsMessage]
        ELSE IF invalid_ids # <<>>
        THEN [result EXCEPT !.invalid_ids = invalid_ids,
                            !.message = <<"Gecersiz kaynak numaralari: ", invalid_ids>>]
        ELSE [result EXCEPT !.is_valid = TRUE,
                            !.message = <<"Gecerli: ", Len(citation_ids),
                                          " kaynak referans verildi">>]

InitCitations ==
    /\ InitRag
    /\ InitFusionOff
    /\ cand = Off
    /\ ck = Off
    /\ aud = Off /\ gr = Off /\ dose = Off
    /\ \E answer \in Answers, num_sources \in NumSources :
            cit = [pc |-> "ready", answer |-> answer, num_sources |-> num_sources,
                   ids |-> <<>>, report |-> <<>>]

\* extract_citations(answer): returns the list, or the ValueError of line 174
\* leaves the function
ExtractCitations ==
    /\ cit.pc = "ready"
    /\ IF ExtractRaises(cit.answer)
       THEN cit' = [cit EXCEPT !.pc = "extract_raised"]
       ELSE cit' = [cit EXCEPT !.pc = "extracted",
                       !.ids = extract_citations(cit.answer)]
    /\ UNCHANGED <<ragVars, ingestVars, queryVars, fusionVars, cand, ck, auditVars>>

\* validate_citations(answer, num_sources): returns the report, or the
\* ValueError of extract_citations (called on line 195, not caught) leaves it
ValidateCitations ==
    /\ cit.pc = "ready"
    /\ IF ExtractRaises(cit.answer)
       THEN cit' = [cit EXCEPT !.pc = "validate_raised"]
       ELSE cit' = [cit EXCEPT !.pc = "validated",
                       !.report = validate_citations(cit.answer, cit.num_sources)]
    /\ UNCHANGED <<ragVars, ingestVars, queryVars, fusionVars, cand, ck, auditVars>>

NextCitations == ExtractCitations \/ ValidateCitations

SpecCitations == InitCitations /\ [][NextCitations]_vars

----------------------------------------------------------------------------
\* SpecAudit: the end of MedicalRAG.ask (src/rag.py:287-317) as a function of
\* what hybrid_search returned and of the answer the language model gave.

\* most chunks in the document that was searched
MaxDocChunks == 6

\* the orders in which a search can return the chunks 0..n-1: every rotation
\* of the index order and of its reverse
SearchOrders(n) ==
    {[i \in 1..n |-> (r + i - 1) % n] : r \in 0..(n - 1)}
        \cup {[i \in 1..n |-> (r + n - i) % n] : r \in 0..(n - 1)}

\* hybrid_search(query, top_k=5) over a document of n chunks: <<>> when the
\* index is not ready, else (idx, chunk) pairs for min(5, n) chunks
SearchResults(n) ==
    {<<>>} \cup
    {[i \in 1..Min(ASK_TOP_K, n) |-> <<order[i], ChunkText(1, order[i])>>] :
        order \in SearchOrders(n)}

\* the pieces of the answers the language model gives
AuditSegments ==
    { <<"[", "1", "]">>, <<"[", "2", "]">>, <<"[", "6", "]">>,
      <<"[", "K", "a", "y", "n", "a", "k", " ", "3", "]">>,
      <<"[", DigitRun, "]">>, <<"x">> }

AuditAnswers == {Concat(segs) : segs \in SeqsUpTo(AuditSegments, 2)}

InitAudit ==
    /\ InitRag
    /\ InitFusionOff
    /\ cand = Off /\ ck = Off /\ cit = Off
    /\ gr = Off /\ dose = Off
    /\ \E n \in 1..MaxDocChunks :
         \E search_results \in SearchResults(n) :
            aud = [pc |-> "ready", chunks_n |-> n,
                   search_results |-> search_results,
                   labelled |-> <<>>, ret |-> [kind |-> "none"]]

\* generate_answer lines 215-217: chunk i of context_chunks goes into the
\* prompt under the label [Kaynak i]
SourceLabels(context_chunks) ==
    [i \in 1..Len(context_chunks) |-> [label |-> i, chunk |-> context_chunks[i]]]

\* line 301: the num_sources that ask hands to validate_citations
AuditNumSourcesWholeDocument(context_chunks, chunks_n) == chunks_n
AuditNumSources(context_chunks, chunks_n) == Len(context_chunks)

\* lines 287-317
AskAudit ==
    /\ aud.pc = "ready"
    /\ LET context_chunks ==
               [i \in 1..Len(aud.search_results) |-> aud.search_results[i][2]]
       IN  IF context_chunks = <<>>
           THEN aud' = [aud EXCEPT !.pc = "done",
                           !.ret = [kind |-> "no_sources", sources |-> <<>>,
                                    citations_valid |-> FALSE]]
           ELSE \E answer \in AuditAnswers :
                  IF ExtractRaises(answer)
                  THEN aud' = [aud EXCEPT !.pc = "raised",
                                  !.labelled = SourceLabels(context_chunks)]
                  ELSE LET validation ==
                               validate_citations(answer,
                                   AuditNumSources(context_chunks, aud.chunks_n))
                       IN  aud' = [aud EXCEPT !.pc = "done",
                                      !.labelled = SourceLabels(context_chunks),
                                      !.ret = [kind |-> "answer",
                                               answer |-> answer,
                                               sources |-> context_chunks,
                                               citation_ids |-> extract_citations(answer),
                                               citations_valid |-> validation.is_valid,
                                               validation_message |-> validation.message]]
    /\ UNCHANGED <<ragVars, ingestVars, queryVars, fusionVars, cand, ck, cit, gr, dose>>

NextAudit == AskAudit

SpecAudit == InitAudit /\ [][NextAudit]_vars

----------------------------------------------------------------------------
\* SpecGrounding: verify_answer_grounding (src/utils.py:289-346).  An answer
\* and a source chunk are sequences of tokens, the whitespace-separated words
\* of the text; a sentence end and a citation marker are tokens of their own.

\* largest number of pieces in an answer
MaxPieces == 2
\* largest number of source chunks
MaxSources == 2

\* the characters that end a sentence (line 307)
SentenceEnds == {".", "!", "?"}
\* the tokens that line 304 removes
MarkerTokens == {"[1]", "[Kaynak 2]"}

\* len(w) of the words used here
WordLen(w) ==
    CASE w \in {"ab", "ve"} -> 2
      [] w \in {"eta", "bir"} -> 3
      [] w \in {"alfa", "Alfa", "beta", "gama", "zeta", "veya"} -> 4
      [] w = "delta" -> 5
      [] w = "epsilon" -> 7

\* w.lower()
LowerWord(w) == IF w = "Alfa" THEN "alfa" ELSE w

\* lines 311-314, without the four stop words that have letters outside
\* ASCII; no word used here is one of them
turkish_stop_words ==
    {"ve", "veya", "ile", "bir", "bu", "o", "da", "de", "mi", "mu", "ki",
     "ne", "kadar", "gibi", "daha", "az"}

\* the pieces answers are made of: sentences of 3, 5 and 4 content words, a
\* sentence with a marker and a capital, sentences of 0 and 2 content words,
\* words without a sentence end, and a sentence end alone
AnswerPieces ==
    { <<"alfa", "beta", "gama", ".">>,
      <<"alfa", "beta", "gama", "delta", "epsilon", "!">>,
      <<"alfa", "alfa", "beta", "gama", "delta", ".">>,
      <<"Alfa", "beta", "[1]", "zeta", "?">>,
      <<"ab", "veya", ".">>,
      <<"alfa", "bir", "beta", "[Kaynak 2]", ".">>,
      <<"zeta", "eta">>,
      <<".">> }

GroundingAnswers == {Concat(pieces) : pieces \in SeqsUpTo(AnswerPieces, MaxPieces)}

SourceTexts ==
    { <<"alfa">>, <<"Alfa", "veya", "ab">>, <<"zeta", "delta">>, <<"eta", "epsilon">> }

InitGrounding ==
    /\ InitRag
    /\ InitFusionOff
    /\ cand = Off /\ ck = Off /\ cit = Off
    /\ aud = Off /\ dose = Off
    /\ \E answer \in GroundingAnswers,
          source_chunks \in SeqsUpTo(SourceTexts, MaxSources) :
            gr = [pc |-> "ready", answer |-> answer, source_chunks |-> source_chunks,
                  sentences |-> <<>>, i |-> 0,
                  grounded_sentences |-> 0, total_sentences |-> 0,
                  report |-> [kind |-> "none"]]

\* line 304: the answer without its citation markers
CleanAnswer(answer) == SelectSeq(answer, LAMBDA t : t \notin MarkerTokens)

\* line 307: the runs of tokens between sentence ends, from token i on, cur
\* being the run read so far
RECURSIVE SplitSentences(_, _, _)
SplitSentences(tokens, cur, i) ==
    IF i > Len(tokens) THEN <<cur>>
    ELSE IF tokens[i] \in SentenceEnds
         THEN <<cur>> \o SplitSentences(tokens, <<>>, i + 1)
         ELSE SplitSentences(tokens, Append(cur, tokens[i]), i + 1)

\* lines 307-308: the sentences that are not empty
Sentences(clean_answer) ==
    SelectSeq(SplitSentences(clean_answer, <<>>, 1), LAMBDA s : s # <<>>)

\* lines 321-323 and 330-331: the lower-cased words longer than 2 characters
\* that are not stop words
ContentWords(tokens) ==
    {LowerWord(tokens[j]) : j \in {k \in 1..Len(tokens) : WordLen(tokens[k]) > 2}}
        \ turkish_stop_words

\* lines 304-317
GroundingCall ==
    /\ gr.pc = "ready"
    /\ LET sentences == Sentences(CleanAnswer(gr.answer))
       IN  gr' = [gr EXCEPT !.pc = "loop", !.sentences = sentences, !.i = 1,
                     !.grounded_sentences = 0,
                     !.total_sentences = Len(sentences)]
    /\ UNCHANGED <<ragVars, ingestVars, queryVars, fusionVars, cand, ck, cit, aud, dose>>

\* line 335: overlap >= len(words) * 0.25
EnoughOverlap(words, chunk) ==
    4 * Cardinality(words \cap ContentWords(chunk)) >= Cardinality(words)

\* lines 329-337: what the sentence adds to grounded_sentences; the loop over
\* the chunks stops at the first chunk with enough overlap
GroundedPerChunk(words, source_chunks) ==
    Cardinality({c \in 1..Len(source_chunks) : EnoughOverlap(words, source_chunks[c])})
GroundedOnce(words, source_chunks) ==
    IF \E c \in 1..Len(source_chunks) : EnoughOverlap(words, source_chunks[c])
    THEN 1 ELSE 0

\* lines 319-337: one iteration of the loop over the sentences
GroundingSentence ==
    /\ gr.pc = "loop"
    /\ gr.i <= Len(gr.sentences)
    /\ LET words == ContentWords(gr.sentences[gr.i])
       IN  IF Cardinality(words) < 3
           THEN gr' = [gr EXCEPT !.i = gr.i + 1]
           ELSE gr' = [gr EXCEPT !.i = gr.i + 1,
                          !.grounded_sentences =
                              gr.grounded_sentences + GroundedOnce(words, gr.source_chunks)]
    /\ UNCHANGED <<ragVars, ingestVars, queryVars, fusionVars, cand, ck, cit, aud, dose>>

\* lines 339-346; the ratio is kept as the fraction <<numerator, denominator>>
\* and is 0 when there is no sentence
GroundingReturn ==
    /\ gr.pc = "loop"
    /\ gr.i > Len(gr.sentences)
    /\ LET grounding_ratio == IF gr.total_sentences > 0
                              THEN <<gr.grounded_sentences, gr.total_sentences>>
                              ELSE <<0, 1>>
       IN  gr' = [gr EXCEPT !.pc = "done",
                     !.report = [kind |-> "report",
                                 grounding_ratio |-> grounding_ratio,
                                 grounded_sentences |-> gr.grounded_sentences,
                                 total_sentences |-> gr.total_sentences,
                                 is_well_grounded |->
                                     100 * grounding_ratio[1] >= 65 * grounding_ratio[2]]]
    /\ UNCHANGED <<ragVars, ingestVars, queryVars, fusionVars, cand, ck, cit, aud, dose>>

NextGrounding == GroundingCall \/ GroundingSentence \/ GroundingReturn

SpecGrounding == InitGrounding /\ [][NextGrounding]_vars

----------------------------------------------------------------------------
\* SpecDose: calculate_dose for ibuprofen (src/dose_calculator.py:150-210,
\* 227-297).  Weights and ages are counted in halves (of a kilogram, of a
\* year), so that 0.5 is an input; doses are fractions of a milligram.

\* largest weight, in kilograms
MaxWeight == 45

\* the weights, in half kilograms, zero and a negative weight included
WeightHalves == (-2)..(2 * MaxWeight)
\* the ages, in half years: negative, 0, 0.5, 1 and 5 years
AgeHalves == {-1, 0, 1, 2, 10}

InitDose ==
    /\ InitRag
    /\ InitFusionOff
    /\ cand = Off /\ ck = Off /\ cit = Off
    /\ aud = Off /\ gr = Off
    /\ \E w \in WeightHalves, a \in AgeHalves :
            dose = [pc |-> "ready", weight_halves |-> w, age_halves |-> a,
                    result |-> [dose |-> "none"]]

\* round(n / d) for n >= 0 and d > 0: to the nearest integer, a half going to
\* the even neighbour
PyRound(n, d) ==
    LET q == n \div d
        r == n % d
    IN  IF 2 * r < d THEN q
        ELSE IF 2 * r > d THEN q + 1
        ELSE IF q % 2 = 0 THEN q ELSE q + 1

\* lines 193-196: the single dose, given in thirds of a milligram, rounded to
\* 20 mg below 200 mg and to 50 mg from 200 mg on
RoundedDose(single_thirds) ==
    IF single_thirds < 3 * 200
    THEN PyRound(single_thirds, 3 * 20) * 20
    ELSE PyRound(single_thirds, 3 * 50) * 50

\* lines 168-210: 10 mg/kg, at most a third of min(40 mg/kg, 1200 mg); the
\* doses before rounding are in thirds of a milligram
calc_ibuprofen_dose(weight_halves, age_halves) ==
    IF age_halves < 1
    THEN [dose |-> "Uygulanmaz", is_safe |-> FALSE]
    ELSE LET standard_thirds == (3 * 10 * weight_halves) \div 2
             max_daily == Min((40 * weight_halves) \div 2, 1200)
             max_doses == 4
             capped == standard_thirds > max_daily
             dose_thirds == IF capped THEN max_daily ELSE standard_thirds
         IN  [dose |-> "mg", mg |-> RoundedDose(dose_thirds),
              max_doses |-> max_doses, max_daily |-> max_daily,
              is_safe |-> ~capped]

\* lines 247-297 for the drug name ibuprofen
CalculateDose ==
    /\ dose.pc = "ready"
    /\ dose' = [dose EXCEPT !.pc = "done",
                   !.result = IF dose.weight_halves <= 0 \/ dose.age_halves < 0
                              THEN [dose |-> "Hata", is_safe |-> FALSE]
                              ELSE calc_ibuprofen_dose(dose.weight_halves,
                                                       dose.age_halves)]
    /\ UNCHANGED <<ragVars, ingestVars, queryVars, fusionVars, cand, ck, cit, aud, gr>>

NextDose == CalculateDose

SpecDose == InitDose /\ [][NextDose]_vars

----------------------------------------------------------------------------
\* Properties of rrf_fusion (SpecFusion)

FusionDone == fpc \in {"fused", "both"}

Ids(list) == {list[i][1] : i \in 1..Len(list)}
IdSeq(list) == [i \in 1..Len(list) |-> list[i][1]]

\* the 0-based ranks at which id occurs in list
RanksOf(list, id) == {r \in 0..(Len(list) - 1) : list[r + 1][1] = id}

RECURSIVE SumOver(_, _, _)
\* the sum of den / (k + r + 1) over the ranks r of a set
SumOver(ranks, k, den) ==
    IF ranks = {} THEN 0
    ELSE LET r == CHOOSE x \in ranks : TRUE
         IN (den \div (k + r + 1)) + SumOver(ranks \ {r}, k, den)

\* C8: the output of rrf_fusion is ordered by descending fused score, ids of
\* equal fused score by ascending id; the scenario fuse([(5,10.0),(2,9.0)],
\* [(2,0.9),(5,0.7)], k=60) is output as id 2 before id 5.
C8_FusedDescendingTiesByAscendingId ==
    FusionDone =>
        /\ \A i, j \in 1..Len(fOut) : i < j =>
              \/ fOut[i][2][1] > fOut[j][2][1]
              \/ fOut[i][2][1] = fOut[j][2][1] /\ fOut[i][1] < fOut[j][1]
        /\ (fA = ScenarioA /\ fB = ScenarioB /\ fk = RRF_K) => IdSeq(fOut) = <<2, 5>>

\* C9: the fused score of an id is the sum, over both lists and over every
\* 0-based rank r at which the id occurs, of 1/(k + r + 1); the output holds
\* exactly the ids of the two lists, each once.
C9_FusedScoreIsSumOfReciprocalRanks ==
    FusionDone =>
        /\ Ids(fOut) = Ids(fA) \cup Ids(fB)
        /\ \A i, j \in 1..Len(fOut) : i # j => fOut[i][1] # fOut[j][1]
        /\ \A i \in 1..Len(fOut) :
              LET id == fOut[i][1]
                  num == fOut[i][2][1]
                  den == fOut[i][2][2]
                  ranksA == RanksOf(fA, id)
                  ranksB == RanksOf(fB, id)
              IN /\ den > 0
                 /\ \A r \in ranksA \cup ranksB : den % (fk + r + 1) = 0
                 /\ num = SumOver(ranksA, fk, den) + SumOver(ranksB, fk, den)

\* C9 witness: a fusion in which one id occurs twice in the first list and
\* once in the second, and another id occurs in one list only.
C9_Witness ==
    /\ FusionDone
    /\ \E id \in Ids(fA) :
          /\ Cardinality(RanksOf(fA, id)) = 2
          /\ Cardinality(RanksOf(fB, id)) = 1
    /\ \E id \in Ids(fB) : id \notin Ids(fA)

DistinctIds(list) == \A i, j \in 1..Len(list) : i # j => list[i][1] # list[j][1]
DistinctScores(list) == \A i, j \in 1..Len(list) : i # j => list[i][2] # list[j][2]

\* C10: for lists of pairwise distinct ids and pairwise distinct scores,
\* rrf_fusion(A, B, k) and rrf_fusion(B, A, k) are the same sequence.
C10_FusionIndependentOfArgumentOrder ==
    (/\ fpc = "both"
     /\ DistinctIds(fA) /\ DistinctIds(fB)
     /\ DistinctScores(fA) /\ DistinctScores(fB))
    => fOut = fOutSwapped

----------------------------------------------------------------------------
\* Properties of MedicalRAG (Spec, SpecSerial)

\* a query call was made and has returned or raised
Returned == qpc = "return"

\* the ingestions the stored fields come from
ChunkSources == {chunks[i][1] : i \in 1..Len(chunks)}

\* embeddings and BM25 index were built from exactly the stored chunk list
BuiltFromChunks ==
    /\ embeddings.rows = Len(chunks)
    /\ bm25.rows = Len(chunks)
    /\ embeddings.src = bm25.src
    /\ ChunkSources \subseteq {embeddings.src}

\* C1: a search that runs while ingest_pdf runs reads chunks, embeddings and
\* BM25 index of one and the same ingestion.
C1_SearchReadsOneIngestion ==
    call.fn # "none" =>
        Cardinality(call.used_bm25 \cup call.used_embeddings \cup call.used_chunks) <= 1

\* C2: whenever no ingest_pdf call is in progress, embeddings and BM25 index
\* were both built from the stored chunk list, or no index is stored.
C2_IndexesMatchChunks ==
    ipc = "idle" => \/ embeddings = None /\ bm25 = None
                    \/ BuiltFromChunks

\* C3: an ingest_pdf call that returned an error left chunks, embeddings, BM25
\* index, document_name and stats['total_chunks'] as they were.
C3_FailedIngestPublishesNothing ==
    (ipc = "return" /\ iresult.kind = "error") => Published = pre

\* C4: after any sequence of ingest_pdf calls, a hybrid_search completes: every
\* index it takes from the fused ranking is within 0..len(chunks)-1.
C4_SearchIndicesInRange ==
    /\ qpc = "resolve" =>
          \A i \in 1..Len(FusedTop(call.fused_results, call.top_k)) :
              FusedTop(call.fused_results, call.top_k)[i][1] \in 0..(Len(chunks) - 1)
    /\ Returned => call.error = "none"

\* the search of the last call ran on the fields as they are now
SearchedCurrentIndex ==
    /\ call.fn \in {"search", "ask"}
    /\ qpc \in {"return", "ask_after"}
    /\ ipc = "idle"
    /\ call.start_ingests = ingests

\* C5: on a consistently indexed document of N >= 1 chunks, hybrid_search with
\* top_k >= 1 returns exactly min(top_k, N) results, with pairwise distinct
\* chunk indices, each paired with the text of the chunk at that index.
C5_SearchReturnsMinTopKN ==
    (SearchedCurrentIndex /\ chunks # <<>> /\ BuiltFromChunks) =>
        /\ call.error = "none"
        /\ Len(call.results) = Min(call.top_k, Len(chunks))
        /\ \A i, j \in 1..Len(call.results) :
              i # j => call.results[i][1] # call.results[j][1]
        /\ \A i \in 1..Len(call.results) :
              /\ call.results[i][1] \in 0..(Len(chunks) - 1)
              /\ call.results[i][2] = chunks[call.results[i][1] + 1]

\* C5 witness: a search with top_k = 1 has returned on a consistently indexed
\* document of 3 chunks.
C5_Witness ==
    /\ SearchedCurrentIndex /\ qpc = "return" /\ BuiltFromChunks
    /\ call.fn = "search" /\ call.top_k = 1 /\ Len(chunks) = 3
    /\ Len(call.results) = 1

\* C6: with an empty chunk list hybrid_search returns an empty list and ask
\* returns the not-ready result (no sources, citations_valid false) without
\* running retrieval or generation; neither raises.
C6_EmptyIndexIsNotReady ==
    /\ (call.fn = "search" /\ call.start_chunks_n = 0) =>
          /\ qpc = "return"
          /\ call.results = <<>>
          /\ call.error = "none"
          /\ call.used_bm25 \cup call.used_embeddings \cup call.used_chunks = {}
    /\ (call.fn = "ask" /\ call.start_chunks_n = 0) =>
          /\ qpc = "return"
          /\ call.error = "none"
          /\ call.ret.kind = "not_ready"
          /\ call.ret.sources = <<>>
          /\ call.ret.citations_valid = FALSE
          /\ ~call.retrieved
          /\ ~call.generated

\* C6 witness: hybrid_search has returned on an empty chunk list while the
\* embeddings and BM25 index of an earlier document are still stored.
C6_Witness ==
    /\ Returned /\ call.fn = "search" /\ call.start_chunks_n = 0
    /\ embeddings # None /\ bm25 # None
    /\ call.results = <<>>

\* C7: with chunks present and exactly one of BM25 index and embeddings
\* unavailable, hybrid_search still returns the chunks ranked by the other
\* signal.
C7_OneSignalMissingStillRanks ==
    (/\ Returned /\ call.fn = "search"
     /\ call.guard.chunks_n > 0
     /\ (call.guard.embeddings = None) # (call.guard.bm25 = None))
    => call.results # <<>> /\ call.error = "none"

----------------------------------------------------------------------------
\* Properties of the candidate lists (SpecCandidates)

\* list is by descending score, equal scores by ascending chunk index
DescendingTiesAscending(list) ==
    \A i \in 1..(Len(list) - 1) :
        \/ list[i][2] > list[i + 1][2]
        \/ list[i][2] = list[i + 1][2] /\ list[i][1] < list[i + 1][1]

\* C11: each candidate list that hybrid_search hands to the fusion, the
\* lexical one and the dense one, is sorted by descending score with chunks of
\* equal score in ascending chunk-index order.
C11_CandidatesDescendingTiesAscending ==
    cand.pc \in {"lexical", "dense"} => DescendingTiesAscending(cand.results)

\* C12: for a query with no token the lexical candidate list is empty, so
\* that no chunk gets a lexical rank in the fusion.
C12_NoTokenNoLexicalCandidates ==
    (cand.pc = "lexical" /\ cand.tokens = 0) => cand.results = <<>>

\* C13: a chunk vector or a query vector of zero norm gives similarity 0, and
\* no undefined value enters the dense ranking.
C13_ZeroNormSimilarityIsZero ==
    cand.pc = "dense" =>
        \A i \in 1..Len(cand.results) :
            /\ cand.results[i][2] # NaN
            /\ (cand.query_zero \/ cand.results[i][1] \in cand.zero_rows)
                  => cand.results[i][2] = 0

----------------------------------------------------------------------------
\* Properties of chunk_text (SpecChunk)

\* the constraint on the parameters: size > overlap >= 0
ValidChunkParams == ck.size > ck.overlap /\ ck.overlap >= 0

\* C14: for size > overlap >= 0 the window start strictly increases from one
\* loop iteration to the next, so that the loop ends within len(text)
\* iterations.
C14_WindowStartStrictlyIncreases ==
    (ValidChunkParams /\ ck.pc \in {"loop", "break"}) =>
        /\ \A i \in 1..(Len(ck.chunks) - 1) :
                ck.chunks[i].start < ck.chunks[i + 1].start
        /\ (ck.pc = "loop" /\ ck.chunks # <<>>) =>
                ck.chunks[Len(ck.chunks)].start < ck.start
        /\ ck.iters <= Len(ck.text)

\* C15: a call with overlap >= size, overlap < 0 or size <= 0 is rejected with
\* an invalid-configuration error; it runs no iteration and returns no chunk.
C15_InvalidParamsRejected ==
    (~ValidChunkParams /\ ck.pc # "ready") =>
        /\ ck.pc = "invalid-configuration"
        /\ ck.chunks = <<>>
        /\ ck.result = <<>>

RECURSIVE Reconstruct(_, _, _)
\* the first chunk whole, then every later chunk without its first overlap
\* characters, concatenated; i is the chunk to take next
Reconstruct(result, overlap, i) ==
    IF i > Len(result) THEN <<>>
    ELSE (IF i = 1 THEN result[i]
          ELSE SubSeq(result[i], overlap + 1, Len(result[i])))
         \o Reconstruct(result, overlap, i + 1)

\* C16: for a text at least size long, the first returned chunk followed by
\* every later chunk minus its first overlap characters is the text itself.
C16_ChunksReconstructText ==
    (ValidChunkParams /\ ck.pc = "done" /\ Len(ck.text) >= ck.size) =>
        Reconstruct(ck.result, ck.overlap, 1) = ck.text

\* number of text positions two spans have in common
Shared(s, t) == Max(0, Min(s[2], t[2]) - Max(s[1], t[1]))

\* C17: two consecutive returned chunks share at most overlap characters of
\* the text.
C17_ConsecutiveChunksShareAtMostOverlap ==
    (ValidChunkParams /\ ck.pc = "done") =>
        \A i \in 1..(Len(ck.chunks) - 1) :
            Shared(ck.chunks[i].span, ck.chunks[i + 1].span) <= ck.overlap

\* a call returned two chunks that share exactly overlap > 0 characters
C17_Witness ==
    /\ ValidChunkParams
    /\ ck.pc = "done"
    /\ ck.overlap > 0
    /\ \E i \in 1..(Len(ck.chunks) - 1) :
            Shared(ck.chunks[i].span, ck.chunks[i + 1].span) = ck.overlap

\* the sentence terminals of line 75
Terminals == {".", "!", "?"}

\* C24: every chunk returned for "A. B. C." with size 4 and overlap 1 ends
\* with a sentence terminal, and the chunks together contain every
\* non-whitespace character of the text, in order.
C24_ExampleChunksEndWithTerminal ==
    (ck.pc = "done" /\ ck.text = <<"A", ".", " ", "B", ".", " ", "C", ".">>
        /\ ck.size = 4 /\ ck.overlap = 1) =>
        /\ \A i \in 1..Len(ck.result) :
                ck.result[i][Len(ck.result[i])] \in Terminals
        /\ \A p \in 1..Len(ck.text) :
                ck.text[p] \notin Whitespace =>
                    \E i \in 1..Len(ck.chunks) :
                        ck.chunks[i].span[1] < p /\ p <= ck.chunks[i].span[2]
        /\ \A i \in 1..(Len(ck.chunks) - 1) :
                ck.chunks[i].span[1] <= ck.chunks[i + 1].span[1]

\* the offset in the window text[start:start+size] of its last terminal, -1
\* when it has none
LastTerminal(text, start, size) ==
    LET P == {j \in 0..(size - 1) :
                 start + j < Len(text) /\ text[start + j + 1] \in Terminals}
    IN  IF P = {} THEN -1 ELSE SetMax(P)

\* the windows of the call so far whose cut has been made: every recorded
\* chunk but the rest appended at the break
CutWindows == 1..(Len(ck.chunks) - (IF ck.pc = "break" THEN 1 ELSE 0))

\* where window i was cut: the start of the next window plus the overlap
CutAt(i) ==
    (IF i < Len(ck.chunks) THEN ck.chunks[i + 1].start ELSE ck.start) + ck.overlap

\* C25: a window that does not reach the end of the text is cut just after
\* its last terminal exactly when the offset of that terminal is greater than
\* size // 2, and after exactly size characters otherwise.
C25_SnapExactlyPastMidpoint ==
    (ValidChunkParams /\ ck.pc \in {"loop", "break"}) =>
        \A i \in CutWindows :
            LET start == ck.chunks[i].start
                last == LastTerminal(ck.text, start, ck.size)
            IN  start + ck.size < Len(ck.text) =>
                    CutAt(i) = IF last > ck.size \div 2
                               THEN start + last + 1
                               ELSE start + ck.size

\* a window was cut after a "!" past its midpoint, short of size characters
C25_Witness ==
    /\ ValidChunkParams
    /\ ck.pc \in {"loop", "break"}
    /\ \E i \in CutWindows :
         LET start == ck.chunks[i].start
             last == LastTerminal(ck.text, start, ck.size)
         IN  /\ start + ck.size < Len(ck.text)
             /\ last > ck.size \div 2
             /\ last + 1 < ck.size
             /\ ck.text[start + last + 1] = "!"
             /\ CutAt(i) = start + last + 1

\* C26: a text no longer than size that is not blank gives exactly one chunk,
\* the trimmed text, and no returned chunk lies entirely inside the chunk
\* before it.
C26_ShortTextOneChunkNoNestedChunk ==
    (ValidChunkParams /\ ck.pc = "done") =>
        /\ (Len(ck.text) <= ck.size /\ \E p \in 1..Len(ck.text) :
                                            ck.text[p] \notin Whitespace) =>
                ck.result = <<Chars(ck.text, StripSpan(ck.text, <<0, Len(ck.text)>>))>>
        /\ \A i \in 1..(Len(ck.chunks) - 1) :
                ~(/\ ck.chunks[i].span[1] <= ck.chunks[i + 1].span[1]
                  /\ ck.chunks[i + 1].span[2] <= ck.chunks[i].span[2])

----------------------------------------------------------------------------
\* Properties of extract_citations and validate_citations (SpecCitations)

\* the word Kaynak in any case at positions i..i+5 of s
IsLabel(s, i) ==
    /\ i + 5 <= Len(s)
    /\ s[i] \in {"K", "k"} /\ s[i + 1] \in {"A", "a"} /\ s[i + 2] \in {"Y", "y"}
    /\ s[i + 3] \in {"N", "n"} /\ s[i + 4] \in {"A", "a"} /\ s[i + 5] \in {"K", "k"}

\* s[i..j] is a marker [n] or [Kaynak n]: an opening bracket, the label or
\* nothing, blanks if any, the digits of n, a closing bracket.  d is where the
\* digits begin.
IsMarker(s, i, d, j) ==
    /\ i < d /\ d < j
    /\ s[i] = "[" /\ s[j] = "]"
    /\ \A p \in d..(j - 1) : s[p] \in Digits
    /\ \E b \in {i + 1, i + 7} :
          /\ b <= d
          /\ b = i + 7 => IsLabel(s, i + 1)
          /\ \A p \in b..(d - 1) : s[p] \in Whitespace

\* the markers of s, each as <<position, number>>
Markers(s) ==
    UNION {UNION {{<<i, int(SubSeq(s, d, j - 1))>> :
                        d \in {x \in (i + 1)..(j - 1) : IsMarker(s, i, x, j)}} :
                  j \in {y \in (i + 2)..Len(s) : s[y] = "]"}} :
           i \in {x \in 1..Len(s) : s[x] = "["}}

MarkerNumbers(s) == {m[2] : m \in Markers(s)}

\* where number n first occurs as a marker of s
FirstMarker(s, n) == SetMin({m[1] : m \in {x \in Markers(s) : x[2] = n}})

\* C18: validate_citations reports is_valid true exactly when at least one
\* citation id was extracted from the answer and every extracted id lies in
\* 1..num_sources.
C18_ValidIffCitedAndAllInRange ==
    cit.pc \in {"validated", "validate_raised"} =>
        ((cit.pc = "validated" /\ cit.report.is_valid)
            <=> /\ cit.pc = "validated"
                /\ MarkerNumbers(cit.answer) # {}
                /\ MarkerNumbers(cit.answer) \subseteq 1..cit.num_sources)

\* validate_citations accepted an answer that cites two sources
C18_Witness ==
    /\ cit.pc = "validated"
    /\ cit.report.is_valid
    /\ Len(cit.report.citation_ids) = 2

\* ids are out of range
OutOfRange(ids, num_sources) ==
    SelectSeq(ids, LAMBDA cid : cid \notin 1..num_sources)

\* C19: validate_citations never raises.  For an answer without a marker it
\* returns is_valid false, has_citations false, no invalid_ids and a message;
\* when an extracted id is out of range it returns is_valid false, invalid_ids
\* being exactly the extracted ids out of range, and a message naming them.
C19_ValidationFailuresAreReturned ==
    cit.pc \in {"validated", "validate_raised"} =>
        /\ cit.pc = "validated"
        /\ MarkerNumbers(cit.answer) = {} =>
              /\ ~cit.report.is_valid
              /\ ~cit.report.has_citations
              /\ cit.report.invalid_ids = <<>>
              /\ cit.report.message # <<>>
        /\ OutOfRange(cit.report.citation_ids, cit.num_sources) # <<>> =>
              /\ ~cit.report.is_valid
              /\ cit.report.invalid_ids =
                    OutOfRange(cit.report.citation_ids, cit.num_sources)
              /\ cit.report.message[Len(cit.report.message)] = cit.report.invalid_ids

\* ids holds the numbers of the markers of s, each once, in the order in which
\* they first occur
NumbersInFirstOccurrenceOrder(s, ids) ==
    /\ {ids[p] : p \in 1..Len(ids)} = MarkerNumbers(s)
    /\ \A p, q \in 1..Len(ids) :
          p < q => FirstMarker(s, ids[p]) < FirstMarker(s, ids[q])

\* C20: extract_citations returns the numbers of all markers [n] and
\* [Kaynak n] of the answer, the label in any case, in order of first
\* occurrence and each number once; other bracket content is skipped.
C20_ExtractReturnsMarkerNumbers ==
    cit.pc \in {"extracted", "extract_raised"} =>
        /\ cit.pc = "extracted"
        /\ NumbersInFirstOccurrenceOrder(cit.answer, cit.ids)

----------------------------------------------------------------------------
\* Properties of the citation audit in ask (SpecAudit)

\* C21: when ask reports citations_valid, every returned citation id is a
\* position in 1..len(sources) of the returned sources, and the source at
\* that position is the chunk that was labelled with that number in the
\* prompt, the sources being in retrieval order.
C21_ValidCitationsAreSourcePositions ==
    (aud.pc = "done" /\ aud.ret.kind = "answer" /\ aud.ret.citations_valid) =>
        /\ \A i \in 1..Len(aud.ret.sources) :
                aud.ret.sources[i] = aud.search_results[i][2]
        /\ \A p \in 1..Len(aud.ret.citation_ids) :
             LET id == aud.ret.citation_ids[p]
             IN  /\ id \in 1..Len(aud.ret.sources)
                 /\ aud.labelled[id].label = id
                 /\ aud.labelled[id].chunk = aud.ret.sources[id]

\* ask accepted two citations for a document with more chunks than sources
C21_Witness ==
    /\ aud.pc = "done"
    /\ aud.ret.kind = "answer"
    /\ aud.ret.citations_valid
    /\ Len(aud.ret.citation_ids) = 2
    /\ aud.chunks_n > Len(aud.ret.sources)

----------------------------------------------------------------------------
\* Properties of verify_answer_grounding (SpecGrounding)

\* the sentences of the call that have at least 3 content words
EligibleSentences ==
    {s \in 1..Len(gr.sentences) : Cardinality(ContentWords(gr.sentences[s])) >= 3}

\* C22: the reported total sentence count and the denominator of the ratio
\* are the number of sentences with at least 3 content words; shorter
\* sentences are left out of both.
C22_RatioOverEligibleSentences ==
    gr.pc = "done" =>
        /\ gr.report.total_sentences = Cardinality(EligibleSentences)
        /\ EligibleSentences # {} =>
              gr.report.grounding_ratio =
                  <<gr.report.grounded_sentences, Cardinality(EligibleSentences)>>

\* the sentence has a source chunk that alone holds at least a quarter of
\* the sentence's content words
HasGroundingChunk(s) ==
    LET words == ContentWords(gr.sentences[s])
    IN  \E c \in 1..Len(gr.source_chunks) :
            4 * Cardinality({w \in words : w \in ContentWords(gr.source_chunks[c])})
                >= Cardinality(words)

\* C23: the grounded sentences are exactly the sentences of at least 3
\* content words that have such a chunk, each counted once, so the count is
\* at most the total and the ratio lies in [0, 1].
C23_GroundedIffOneChunkCoversQuarter ==
    gr.pc = "done" =>
        /\ gr.report.grounded_sentences =
              Cardinality({s \in EligibleSentences : HasGroundingChunk(s)})
        /\ gr.report.grounded_sentences <= gr.report.total_sentences
        /\ 0 <= gr.report.grounding_ratio[1]
        /\ gr.report.grounding_ratio[1] <= gr.report.grounding_ratio[2]

\* a report on two eligible sentences, one grounded by two chunks at once and
\* one with words in the sources but fewer than a quarter in any one chunk
C23_Witness ==
    /\ gr.pc = "done"
    /\ \E s \in EligibleSentences :
          Cardinality({c \in 1..Len(gr.source_chunks) :
              EnoughOverlap(ContentWords(gr.sentences[s]), gr.source_chunks[c])}) = 2
    /\ \E s \in EligibleSentences :
          /\ ~HasGroundingChunk(s)
          /\ \E c \in 1..Len(gr.source_chunks) :
                ContentWords(gr.sentences[s]) \cap ContentWords(gr.source_chunks[c]) # {}
    /\ gr.report.grounded_sentences = 1

----------------------------------------------------------------------------
\* Properties of the ibuprofen dose (SpecDose)

\* C27: for a weight above 0 and an age of at least half a year the rounded
\* single dose times the stated number of doses per day is at most
\* min(40 mg/kg x weight, 1200 mg).
C27_DailyTotalWithinMaximum ==
    (dose.pc = "done" /\ dose.weight_halves > 0 /\ dose.age_halves >= 1) =>
        /\ dose.result.dose = "mg"
        /\ dose.result.max_doses = 4
        /\ 2 * dose.result.mg * dose.result.max_doses
                <= Min(40 * dose.weight_halves, 2 * 1200)

====
